---- MODULE Spec2Model ----
(***************************************************************************)
(* DX UIM MCP server (server.py): the UIMClient transport client, the      *)
(* process-wide client handle set up by init_uim_client / main, and the    *)
(* call_tool dispatcher.                                                   *)
(*                                                                         *)
(* Python strings that the code only concatenates are modelled as          *)
(* sequences of string fragments (an f-string is the concatenation of its  *)
(* pieces).  Python values that the code tests for truthiness or for None  *)
(* are tagged records [t, s, n]: t is "none", "str" or "int".              *)
(***************************************************************************)
EXTENDS Integers, Sequences, FiniteSets, TLC

VARIABLES
    env,          \* the process environment read by init_uim_client
    pc,           \* "loaded", "imported" (used by a host, main not run),
                  \* "serving" (main runs the server), "aborted" (main raised)
    uim_client,   \* the global client handle: NoClient or a UIMClient
    direct,       \* number of call_tool invocations made outside the server
    served,       \* number of call_tool invocations made by the stdio server
    httpCount,    \* number of session.request invocations so far
    last          \* inputs and outputs of the latest call_tool invocation

vars == <<env, pc, uim_client, direct, served, httpCount, last>>

\* ------------------------------------------------------------------ bounds
MaxDirect == 2       \* call_tool invocations made outside the server
MaxServed == 1       \* call_tool invocations made by the stdio server
MaxLen == 2          \* elements of a list or object returned by the upstream

\* ------------------------------------------------------- program constants
DefaultLimit == 100  \* arguments.get('limit', 100)
MinSeverity == 0     \* inputSchema of list_alarms: "minimum": 0
MaxSeverity == 5     \* inputSchema of list_alarms: "maximum": 5

\* ---------------------------------------------------------- Python values
PyNone == [t |-> "none", s |-> "", n |-> 0]
PyStr(x) == [t |-> "str", s |-> x, n |-> 0]
PyInt(k) == [t |-> "int", s |-> "", n |-> k]

\* bool(v) of a value: None, "" and 0 are falsy
Truthy(v) == CASE v.t = "none" -> FALSE
               [] v.t = "str" -> v.s # ""
               [] v.t = "int" -> v.n # 0

\* str(v) as interpolated by an f-string, as a sequence of fragments
Fmt(v) == CASE v.t = "none" -> <<"None">>
            [] v.t = "str" -> IF v.s = "" THEN <<>> ELSE <<v.s>>
            [] v.t = "int" -> <<ToString(v.n)>>

\* s.rstrip('/') on a fragment sequence in which "/" is a fragment of its own
RECURSIVE RStrip(_)
RStrip(s) == IF Len(s) > 0 /\ s[Len(s)] = "/"
             THEN RStrip(SubSeq(s, 1, Len(s) - 1))
             ELSE s

\* s.lstrip('/')
RECURSIVE LStrip(_)
LStrip(s) == IF Len(s) > 0 /\ s[1] = "/"
             THEN LStrip(SubSeq(s, 2, Len(s)))
             ELSE s

\* s.lower() for the values UIM_VERIFY_SSL takes in this model
Lower(s) == CASE s = "TRUE" -> "true"
              [] s = "True" -> "true"
              [] OTHER -> s

\* ------------------------------------------------------------ environment
\* os.getenv(name): None when the variable is unset, else its string
Unset == [set |-> FALSE, v |-> <<>>]
EnvVal(x) == [set |-> TRUE, v |-> x]

Env(b, u, p, v) ==
    [UIM_BASE_URL |-> b, UIM_USERNAME |-> u, UIM_PASSWORD |-> p, UIM_VERIFY_SSL |-> v]

BaseUrl == EnvVal(<<"https://uim:8443">>)
BaseUrlSlash == EnvVal(<<"https://uim:8443", "/">>)

Admin == EnvVal(<<"admin">>)
Secret == EnvVal(<<"secret">>)

\* each of the three required variables unset or set; each of them empty
\* with the others set; and, with all three set, the forms of the base
\* address and of UIM_VERIFY_SSL
Environments ==
    {Env(b, u, p, Unset) : b \in {Unset, BaseUrlSlash}, u \in {Unset, Admin},
                           p \in {Unset, Secret}}
    \cup {Env(EnvVal(<<>>), Admin, Secret, Unset), Env(BaseUrl, EnvVal(<<>>), Secret, Unset),
          Env(BaseUrl, Admin, EnvVal(<<>>), Unset),
          Env(BaseUrl, Admin, Secret, EnvVal(<<"TRUE">>)),
          Env(BaseUrlSlash, Admin, Secret, EnvVal(<<"false">>))}

\* bool(os.getenv(name)): None and "" are falsy
EnvTruthy(e) == e.set /\ e.v # <<>>

\* ----------------------------------------------------------- UIMClient
NoClient == [ready |-> FALSE, base_url |-> <<>>, username |-> <<>>,
             password |-> <<>>, verify_ssl |-> FALSE]

\* UIMClient.__init__
UIMClientInit(base_url, username, password, verify_ssl) ==
    [ready |-> TRUE, base_url |-> RStrip(base_url), username |-> username,
     password |-> password, verify_ssl |-> verify_ssl]

\* os.getenv('UIM_VERIFY_SSL', 'true').lower() == 'true'
VerifySslOf(e) ==
    LET raw == IF e.UIM_VERIFY_SSL.set THEN e.UIM_VERIFY_SSL.v[1] ELSE "true"
    IN Lower(raw) = "true"

\* (variant: any() in place of all())
AllRequired_any(e) ==
    EnvTruthy(e.UIM_BASE_URL) \/ EnvTruthy(e.UIM_USERNAME) \/ EnvTruthy(e.UIM_PASSWORD)

\* the guard of init_uim_client: all([base_url, username, password])
AllRequired(e) ==
    EnvTruthy(e.UIM_BASE_URL) /\ EnvTruthy(e.UIM_USERNAME) /\ EnvTruthy(e.UIM_PASSWORD)

\* init_uim_client: the client it leaves in the global (cur is the global's
\* value before the call), and whether it raised ValueError
init_uim_client(e, cur) ==
    IF ~AllRequired(e)
    THEN [raised |-> TRUE, client |-> cur]
    ELSE [raised |-> FALSE,
          client |-> UIMClientInit(e.UIM_BASE_URL.v, e.UIM_USERNAME.v,
                                   e.UIM_PASSWORD.v, VerifySslOf(e))]

\* ------------------------------------------------------------ JSON values
\* the decoded body of a response: a list of n items, an object of n keys,
\* or null
JList(k) == [t |-> "list", n |-> k]
JDict(k) == [t |-> "dict", n |-> k]
JNull == [t |-> "null", n |-> 0]

JsonValues == {JList(k) : k \in 0..MaxLen} \cup {JDict(1), JNull}

\* whether Python's len() accepts the value
HasLen(v) == v.t \in {"list", "dict"}

\* len(v)
PyLen(v) == v.n

\* type(v).__name__
TypeName(v) == CASE v.t = "list" -> "list"
                 [] v.t = "dict" -> "dict"
                 [] v.t = "null" -> "NoneType"

\* the items of a pretty-printed list or object, one per line
RECURSIVE DumpItems(_, _, _)
DumpItems(v, i, k) ==
    IF i > k THEN <<>>
    ELSE (IF v.t = "dict" THEN <<"\n  \"k", ToString(i), "\": ", ToString(i)>>
                          ELSE <<"\n  ", ToString(i)>>)
         \o (IF i < k THEN <<",">> ELSE <<"\n">>)
         \o DumpItems(v, i + 1, k)

\* format_json(data): json.dumps(data, indent=2)
format_json(v) ==
    CASE v.t = "null" -> <<"null">>
      [] v.t = "list" -> IF v.n = 0 THEN <<"[]">>
                         ELSE <<"[">> \o DumpItems(v, 1, v.n) \o <<"]">>
      [] v.t = "dict" -> IF v.n = 0 THEN <<"{}">>
                         ELSE <<"{">> \o DumpItems(v, 1, v.n) \o <<"}">>

\* ------------------------------------------------------ upstream outcomes
\* what the HTTP transport does with the one request it is handed
OkBody(v) == [kind |-> "ok", body |-> v, status |-> 200]
OkEmpty == [kind |-> "empty", body |-> JNull, status |-> 204]
BadStatus(c) == [kind |-> "status", body |-> JNull, status |-> c]
NetworkFailure == [kind |-> "network", body |-> JNull, status |-> 0]
Undecodable == [kind |-> "undecodable", body |-> JNull, status |-> 200]
NoOutcome == [kind |-> "none", body |-> JNull, status |-> 0]

Outcomes == {OkBody(v) : v \in JsonValues}
            \cup {OkEmpty, BadStatus(404), NetworkFailure, Undecodable}

\* -------------------------------------------------------------- exceptions
NoExc == [cls |-> "", msg |-> <<>>]
Exc(c, m) == [cls |-> c, msg |-> m]

\* classes derived from requests.exceptions.RequestException
RequestExceptions == {"HTTPError", "ConnectionError"}

\* (variant: the handler catches requests.exceptions.RequestException only)
IsException_requestsOnly(cls) == cls \in RequestExceptions

\* isinstance(e, Exception) for the classes raised in this program
IsException(cls) ==
    cls \in RequestExceptions \cup {"JSONDecodeError", "KeyError", "AttributeError",
                                    "TypeError", "ValueError"}

\* ------------------------------------------------------------ HTTP requests
EmptyDict == [k \in {} |-> PyNone]
NoKw == [given |-> FALSE, d |-> EmptyDict]
Kw(d) == [given |-> TRUE, d |-> d]

\* the result of a client operation: the requests it issued, and either the
\* decoded value or the exception raised
Returned(v, rs) == [raised |-> FALSE, value |-> v, exc |-> NoExc, reqs |-> rs]
Raised(e, rs) == [raised |-> TRUE, value |-> JNull, exc |-> e, reqs |-> rs]

\* (variant: a failed request is sent a second time)
_make_request_retry(client, method, endpoint, params, json, outcome) ==
    LET url == client.base_url \o <<"/">> \o LStrip(endpoint)
        req == [method |-> method, url |-> url, params |-> params, json |-> json]
    IN CASE outcome.kind = "network" ->
              Raised(Exc("ConnectionError", <<"Connection failed for url: ">> \o url),
                     <<req, req>>)
         [] outcome.kind = "status" ->
              Raised(Exc("HTTPError",
                         <<ToString(outcome.status), " Error for url: ">> \o url),
                     <<req, req>>)
         [] outcome.kind = "undecodable" ->
              Raised(Exc("JSONDecodeError", <<"Expecting value: line 1 column 1 (char 0)">>),
                     <<req>>)
         [] outcome.kind = "empty" -> Returned(JDict(0), <<req>>)
         [] outcome.kind = "ok" -> Returned(outcome.body, <<req>>)

\* UIMClient._make_request: one session.request, raise_for_status, then
\* response.json() if response.content else {}
_make_request(client, method, endpoint, params, json, outcome) ==
    LET url == client.base_url \o <<"/">> \o LStrip(endpoint)
        req == [method |-> method, url |-> url, params |-> params, json |-> json]
    IN CASE outcome.kind = "network" ->
              Raised(Exc("ConnectionError", <<"Connection failed for url: ">> \o url),
                     <<req>>)
         [] outcome.kind = "status" ->
              Raised(Exc("HTTPError",
                         <<ToString(outcome.status), " Error for url: ">> \o url),
                     <<req>>)
         [] outcome.kind = "undecodable" ->
              Raised(Exc("JSONDecodeError", <<"Expecting value: line 1 column 1 (char 0)">>),
                     <<req>>)
         [] outcome.kind = "empty" -> Returned(JDict(0), <<req>>)
         [] outcome.kind = "ok" -> Returned(outcome.body, <<req>>)

\* ------------------------------------------------------ UIMClient operations
\* a dict literal built from the keys whose condition holds
DictOf(keys, val(_)) == [k \in keys |-> val(k)]

\* UIMClient.get_devices
get_devices(client, domain, hub, outcome) ==
    LET keys == {k \in {"domain", "hub"} :
                   \/ k = "domain" /\ Truthy(domain)
                   \/ k = "hub" /\ Truthy(hub)}
        val(k) == IF k = "domain" THEN domain ELSE hub
    IN _make_request(client, "GET", <<"/", "devices">>, Kw(DictOf(keys, val)), NoKw, outcome)

\* UIMClient.get_device_info
get_device_info(client, device_id, outcome) ==
    _make_request(client, "GET", <<"/", "devices", "/">> \o Fmt(device_id), NoKw, NoKw, outcome)

\* (variant: the severity filter is tested for truthiness, as limit is)
get_alarms_truthySeverity(client, severity, source, limit, outcome) ==
    LET keys == {k \in {"limit", "severity", "source"} :
                   \/ k = "limit" /\ Truthy(limit)
                   \/ k = "severity" /\ Truthy(severity)
                   \/ k = "source" /\ Truthy(source)}
        val(k) == CASE k = "limit" -> limit
                    [] k = "severity" -> severity
                    [] k = "source" -> source
    IN _make_request(client, "GET", <<"/", "alarms">>, Kw(DictOf(keys, val)), NoKw, outcome)

\* UIMClient.get_alarms
get_alarms(client, severity, source, limit, outcome) ==
    LET keys == {k \in {"limit", "severity", "source"} :
                   \/ k = "limit" /\ Truthy(limit)
                   \/ k = "severity" /\ severity # PyNone
                   \/ k = "source" /\ Truthy(source)}
        val(k) == CASE k = "limit" -> limit
                    [] k = "severity" -> severity
                    [] k = "source" -> source
    IN _make_request(client, "GET", <<"/", "alarms">>, Kw(DictOf(keys, val)), NoKw, outcome)

\* UIMClient.get_alarm_summary
get_alarm_summary(client, outcome) ==
    _make_request(client, "GET", <<"/", "alarms", "/", "summary">>, NoKw, NoKw, outcome)

\* (variant: the message is always put in the payload)
acknowledge_alarm_alwaysMessage(client, alarm_id, message, outcome) ==
    _make_request(client, "PUT", <<"/", "alarms", "/">> \o Fmt(alarm_id) \o <<"/", "ack">>,
                  NoKw, Kw(DictOf({"message"}, LAMBDA k : message)), outcome)

\* UIMClient.acknowledge_alarm
acknowledge_alarm(client, alarm_id, message, outcome) ==
    LET keys == {k \in {"message"} : Truthy(message)}
    IN _make_request(client, "PUT", <<"/", "alarms", "/">> \o Fmt(alarm_id) \o <<"/", "ack">>,
                     NoKw, Kw(DictOf(keys, LAMBDA k : message)), outcome)

\* UIMClient.accept_alarm
accept_alarm(client, alarm_id, outcome) ==
    _make_request(client, "PUT", <<"/", "alarms", "/">> \o Fmt(alarm_id) \o <<"/", "accept">>,
                  NoKw, NoKw, outcome)

\* UIMClient.assign_alarm
assign_alarm(client, alarm_id, username, outcome) ==
    _make_request(client, "PUT",
                  <<"/", "alarms", "/">> \o Fmt(alarm_id) \o <<"/", "assign", "/">>
                      \o Fmt(username),
                  NoKw, NoKw, outcome)

\* UIMClient.get_metrics
get_metrics(client, outcome) ==
    _make_request(client, "GET", <<"/", "metrics">>, NoKw, NoKw, outcome)

\* UIMClient.get_metric_definitions
get_metric_definitions(client, outcome) ==
    _make_request(client, "GET", <<"/", "configuration_items", "/", "metricdefinitions">>,
                  NoKw, NoKw, outcome)

\* UIMClient.get_metric_by_id
get_metric_by_id(client, metric_id, outcome) ==
    _make_request(client, "GET",
                  <<"/", "configuration_items", "/", "metrics", "/">> \o Fmt(metric_id),
                  NoKw, NoKw, outcome)

\* UIMClient.get_probes
get_probes(client, outcome) ==
    _make_request(client, "GET", <<"/", "probes">>, NoKw, NoKw, outcome)

\* UIMClient.get_robots
get_robots(client, outcome) ==
    _make_request(client, "GET", <<"/", "robots">>, NoKw, NoKw, outcome)

\* ------------------------------------------------------------- tool arguments
\* the argument object of a call: a mapping d, or a value that is no mapping
\* (None)
Mapping(d) == [mapping |-> TRUE, d |-> d]
NotAMapping == [mapping |-> FALSE, d |-> EmptyDict]

\* arguments.get(k, default) on a mapping
ArgGet(arguments, k, default) ==
    IF k \in DOMAIN arguments.d THEN arguments.d[k] ELSE default

\* the exception arguments.get raises, if any
GetExc(arguments) ==
    IF ~arguments.mapping
    THEN Exc("AttributeError", <<"'NoneType' object has no attribute 'get'">>)
    ELSE NoExc

\* the exception arguments[k] raises, if any
SubscriptExc(arguments, k) ==
    IF ~arguments.mapping
    THEN Exc("TypeError", <<"'NoneType' object is not subscriptable">>)
    ELSE IF k \notin DOMAIN arguments.d
    THEN Exc("KeyError", <<"'", k, "'">>)
    ELSE NoExc

\* ------------------------------------------------------------------ call_tool
\* the outcome of the try block: the text to return or the exception raised,
\* and the requests issued
Ok(text, rs) == [raised |-> FALSE, exc |-> NoExc, text |-> text, reqs |-> rs]
Fail(e, rs) == [raised |-> TRUE, exc |-> e, text |-> <<>>, reqs |-> rs]

\* f"<title>\n\n{format_json(result)}"
Titled(r, title) ==
    IF r.raised THEN Fail(r.exc, r.reqs)
    ELSE Ok(<<title>> \o format_json(r.value), r.reqs)

\* (variant: the summary line carries no count)
Counted_noCount(r, noun) ==
    IF r.raised THEN Fail(r.exc, r.reqs)
    ELSE Ok(<<"Found", noun>> \o format_json(r.value), r.reqs)

\* f"Found {len(result)} <noun>:\n\n{format_json(result)}"
Counted(r, noun) ==
    IF r.raised THEN Fail(r.exc, r.reqs)
    ELSE IF ~HasLen(r.value)
    THEN Fail(Exc("TypeError",
                  <<"object of type '", TypeName(r.value), "' has no len()">>), r.reqs)
    ELSE Ok(<<"Found ", ToString(PyLen(r.value)), noun>> \o format_json(r.value), r.reqs)

\* (variant: the name is left out of the message)
UnknownTool_noName(name) == Ok(<<"Error: ", "Unknown tool">>, <<>>)

\* the else branch: f"Error: Unknown tool '{name}'"
UnknownTool(name) == Ok(<<"Error: ", "Unknown tool '", name, "'">>, <<>>)

\* the try block of call_tool: the if/elif chain over the tool name
Dispatch(client, name, arguments, outcome) ==
    CASE name = "list_devices" ->
           IF GetExc(arguments) # NoExc THEN Fail(GetExc(arguments), <<>>)
           ELSE Counted(get_devices(client, ArgGet(arguments, "domain", PyNone),
                                    ArgGet(arguments, "hub", PyNone), outcome),
                        " devices:\n\n")
      [] name = "get_device_info" ->
           IF SubscriptExc(arguments, "device_id") # NoExc
           THEN Fail(SubscriptExc(arguments, "device_id"), <<>>)
           ELSE Titled(get_device_info(client, arguments.d["device_id"], outcome),
                       "Device Information:\n\n")
      [] name = "list_alarms" ->
           IF GetExc(arguments) # NoExc THEN Fail(GetExc(arguments), <<>>)
           ELSE Counted(get_alarms(client, ArgGet(arguments, "severity", PyNone),
                                   ArgGet(arguments, "source", PyNone),
                                   ArgGet(arguments, "limit", PyInt(DefaultLimit)),
                                   outcome),
                        " alarms:\n\n")
      [] name = "get_alarm_summary" ->
           Titled(get_alarm_summary(client, outcome), "Alarm Summary:\n\n")
      [] name = "acknowledge_alarm" ->
           IF SubscriptExc(arguments, "alarm_id") # NoExc
           THEN Fail(SubscriptExc(arguments, "alarm_id"), <<>>)
           ELSE Titled(acknowledge_alarm(client, arguments.d["alarm_id"],
                                         ArgGet(arguments, "message", PyNone), outcome),
                       "Alarm acknowledged successfully:\n\n")
      [] name = "accept_alarm" ->
           IF SubscriptExc(arguments, "alarm_id") # NoExc
           THEN Fail(SubscriptExc(arguments, "alarm_id"), <<>>)
           ELSE Titled(accept_alarm(client, arguments.d["alarm_id"], outcome),
                       "Alarm accepted successfully:\n\n")
      [] name = "assign_alarm" ->
           IF SubscriptExc(arguments, "alarm_id") # NoExc
           THEN Fail(SubscriptExc(arguments, "alarm_id"), <<>>)
           ELSE IF SubscriptExc(arguments, "username") # NoExc
           THEN Fail(SubscriptExc(arguments, "username"), <<>>)
           ELSE LET r == assign_alarm(client, arguments.d["alarm_id"],
                                      arguments.d["username"], outcome)
                IN IF r.raised THEN Fail(r.exc, r.reqs)
                   ELSE Ok(<<"Alarm assigned successfully to ">>
                               \o Fmt(arguments.d["username"]) \o <<":\n\n">>
                               \o format_json(r.value),
                           r.reqs)
      [] name = "list_metrics" ->
           Counted(get_metrics(client, outcome), " metrics:\n\n")
      [] name = "get_metric_definitions" ->
           Titled(get_metric_definitions(client, outcome), "Metric Definitions:\n\n")
      [] name = "get_metric_by_id" ->
           IF SubscriptExc(arguments, "metric_id") # NoExc
           THEN Fail(SubscriptExc(arguments, "metric_id"), <<>>)
           ELSE Titled(get_metric_by_id(client, arguments.d["metric_id"], outcome),
                       "Metric Data:\n\n")
      [] name = "list_probes" ->
           Counted(get_probes(client, outcome), " probes:\n\n")
      [] name = "list_robots" ->
           Counted(get_robots(client, outcome), " robots:\n\n")
      [] OTHER -> UnknownTool(name)

\* TextContent(type="text", text=...)
TextContent(text) == [type |-> "text", text |-> text]

\* what call_tool hands back to the host: the list it returns, or the
\* exception that leaves it, and the requests it issued
Reply(texts, rs) == [response |-> texts, propagated |-> NoExc, reqs |-> rs]
Escapes(e, rs) == [response |-> <<>>, propagated |-> e, reqs |-> rs]

\* (variant: the uninitialized client is reported by raising)
Uninitialized_raise ==
    Escapes(Exc("RuntimeError", <<"UIM client not initialized">>), <<>>)

\* the reply of call_tool while uim_client is None
Uninitialized ==
    Reply(<<TextContent(<<"Error: ",
                          "UIM client not initialized. Please check environment variables.">>)>>,
          <<>>)

\* call_tool(name, arguments), with the upstream's answer to the request it
\* may issue
call_tool(client, name, arguments, outcome) ==
    IF ~client.ready THEN Uninitialized
    ELSE LET b == Dispatch(client, name, arguments, outcome)
         IN IF ~b.raised THEN Reply(<<TextContent(b.text)>>, b.reqs)
            ELSE IF IsException(b.exc.cls)
            THEN Reply(<<TextContent(<<"Error: ">> \o b.exc.msg)>>, b.reqs)
            ELSE Escapes(b.exc, b.reqs)

\* ---------------------------------------------------------------- inputs
\* the 12 tools of list_tools
ToolNames == {"list_devices", "get_device_info", "list_alarms", "get_alarm_summary",
              "acknowledge_alarm", "accept_alarm", "assign_alarm", "list_metrics",
              "get_metric_definitions", "get_metric_by_id", "list_probes",
              "list_robots"}

\* names a host may send that are no tool
UnknownNames == {"nonexistent_tool", "list_device"}

Names == ToolNames \cup UnknownNames

\* the properties of each tool's inputSchema
ArgKeys(name) ==
    CASE name = "list_devices" -> {"domain", "hub"}
      [] name = "get_device_info" -> {"device_id"}
      [] name = "list_alarms" -> {"severity", "source", "limit"}
      [] name = "acknowledge_alarm" -> {"alarm_id", "message"}
      [] name = "accept_alarm" -> {"alarm_id"}
      [] name = "assign_alarm" -> {"alarm_id", "username"}
      [] name = "get_metric_by_id" -> {"metric_id"}
      [] OTHER -> {}

\* the "required" list of each tool's inputSchema
RequiredKeys(name) ==
    CASE name = "get_device_info" -> {"device_id"}
      [] name = "acknowledge_alarm" -> {"alarm_id"}
      [] name = "accept_alarm" -> {"alarm_id"}
      [] name = "assign_alarm" -> {"alarm_id", "username"}
      [] name = "get_metric_by_id" -> {"metric_id"}
      [] OTHER -> {}

\* values a caller may give a property: severity ranges over its schema,
\* limit is zero or not, a string is empty or not
ArgValues(k) ==
    CASE k = "severity" -> {PyInt(v) : v \in MinSeverity..MaxSeverity}
      [] k = "limit" -> {PyInt(0), PyInt(10)}
      [] k = "domain" -> {PyStr(""), PyStr("lab")}
      [] k = "hub" -> {PyStr("hub1")}
      [] k = "source" -> {PyStr("srv01")}
      [] k = "device_id" -> {PyStr(""), PyStr("D1")}
      [] k = "alarm_id" -> {PyStr(""), PyStr("A1")}
      [] k = "message" -> {PyStr(""), PyStr("seen")}
      [] k = "username" -> {PyStr(""), PyStr("bob")}
      [] k = "metric_id" -> {PyStr(""), PyStr("M1")}

\* the mappings a caller may send with a tool name: any of the tool's
\* properties present or absent (for list_alarms, one filter at a time)
ArgObjects(name) ==
    {Mapping(d) : d \in UNION {{f \in [S -> UNION {ArgValues(k) : k \in S}] :
                                   \A k \in S : f[k] \in ArgValues(k)} :
                               S \in SUBSET ArgKeys(name) \ {T \in SUBSET ArgKeys(name) :
                                                               {"severity", "source"} \subseteq T}}}

\* the calls a host may make: a name and an argument object
CallInputs == {<<name, arguments>> : name \in Names, arguments \in {NotAMapping}}
              \cup UNION {{<<name, arguments>> : arguments \in ArgObjects(name)} :
                          name \in Names}

\* ------------------------------------------------------------ state machine
NoCall == [name |-> "", arguments |-> NotAMapping, outcome |-> NoOutcome,
           ready |-> FALSE, via |-> "none",
           response |-> <<>>, propagated |-> NoExc, reqs |-> <<>>]

Init ==
    /\ env \in Environments
    /\ pc = "loaded"
    /\ uim_client = NoClient
    /\ direct = 0
    /\ served = 0
    /\ httpCount = 0
    /\ last = NoCall

\* main: init_uim_client, then the stdio server runs; an exception of
\* init_uim_client is logged and raised again, which ends the process
main ==
    /\ pc = "loaded"
    /\ LET r == init_uim_client(env, uim_client)
       IN /\ uim_client' = r.client
          /\ pc' = IF r.raised THEN "aborted" ELSE "serving"
    /\ UNCHANGED <<env, direct, served, httpCount, last>>

\* one invocation of the call_tool handler; the upstream answers only a
\* request that is sent, so a call that sends none meets no outcome
Invoke(via, name, arguments, outcome) ==
    LET r == call_tool(uim_client, name, arguments,
                       IF outcome = NoOutcome THEN OkEmpty ELSE outcome)
    IN /\ (outcome = NoOutcome) = (r.reqs = <<>>)
       /\ direct' = IF via = "direct" THEN direct + 1 ELSE direct
       /\ served' = IF via = "stdio" THEN served + 1 ELSE served
       /\ httpCount' = httpCount + Len(r.reqs)
       /\ last' = [name |-> name, arguments |-> arguments, outcome |-> outcome,
                   ready |-> uim_client.ready, via |-> via,
                   response |-> r.response, propagated |-> r.propagated,
                   reqs |-> r.reqs]
       /\ pc' = IF via = "direct" THEN "imported" ELSE pc
       /\ UNCHANGED <<env, uim_client>>

\* app.run dispatches a tools/call request of the host to call_tool
ServeCall ==
    /\ pc = "serving"
    /\ served < MaxServed
    /\ \E c \in CallInputs : \E outcome \in Outcomes \cup {NoOutcome} :
          Invoke("stdio", c[1], c[2], outcome)

\* a host that imported the module (main runs only under __main__) calls the
\* handler
DirectCall ==
    /\ pc \in {"loaded", "imported"}
    /\ direct < MaxDirect
    /\ \E c \in CallInputs : \E outcome \in Outcomes \cup {NoOutcome} :
          Invoke("direct", c[1], c[2], outcome)

Next == main \/ ServeCall \/ DirectCall

Spec == Init /\ [][Next]_vars

\* ===================================================================== claims
\* shorthands over the record of the latest call
Called == last.via # "none"
OneText == /\ last.propagated = NoExc
           /\ Len(last.response) = 1
           /\ last.response[1].type = "text"
           /\ Len(last.response[1].text) >= 1
Text == last.response[1].text
IsErrorText == OneText /\ Text[1] = "Error: "
TextContains(x) == \E i \in 1..Len(Text) : Text[i] = x
Supplied(k) == last.arguments.mapping /\ k \in DOMAIN last.arguments.d
RequiredPresent ==
    last.arguments.mapping /\ RequiredKeys(last.name) \subseteq DOMAIN last.arguments.d

\* the tools whose branch reads the argument object
ReadsArguments == last.name \in ToolNames /\ ArgKeys(last.name) # {}
\* the tools whose branch applies len() to the result
AppliesLen == last.name \in {"list_devices", "list_alarms", "list_metrics",
                             "list_probes", "list_robots"}

\* the failure paths of a call, told from its inputs alone
FailurePath ==
    \/ ~last.ready
    \/ last.name \notin ToolNames
    \/ ReadsArguments /\ ~RequiredPresent
    \/ last.outcome.kind \in {"status", "network", "undecodable"}
    \/ last.outcome.kind = "ok" /\ AppliesLen /\ ~HasLen(last.outcome.body)

\* C1: whatever the tool name, the argument object and the upstream outcome,
\* call_tool returns a list of exactly one text response and no exception
\* leaves it; the text starts with "Error: " on every failure path (and on no
\* other path).
C1_OneTextNeverRaises ==
    Called => /\ OneText
              /\ FailurePath <=> Text[1] = "Error: "

\* C1 witness: a 2xx answer whose body is null reaches len() in list_alarms
\* and comes back as an error text.
C1_Witness ==
    /\ Called /\ last.ready /\ last.name = "list_alarms"
    /\ last.outcome = OkBody(JNull)
    /\ IsErrorText
    /\ Text = <<"Error: ", "object of type '", "NoneType", "' has no len()">>

\* C2: while the client is uninitialized every call returns exactly one error
\* response and issues no HTTP request, however many calls are made, and no
\* call initializes the client.
C2_UninitializedCalls ==
    /\ [](Called /\ ~last.ready => IsErrorText /\ last.reqs = <<>>)
    /\ [](~uim_client.ready => httpCount = 0)
    /\ [][~uim_client.ready /\ last' # last => ~uim_client'.ready]_vars

\* C2 witness: a second call in a row on the uninitialized client.
C2_Witness ==
    /\ direct = MaxDirect /\ ~uim_client.ready /\ ~last.ready
    /\ last.name = "list_alarms" /\ IsErrorText /\ httpCount = 0

\* C3: with the client initialized, a call of a known tool whose argument
\* object is a mapping holding the required arguments issues exactly one HTTP
\* request, whatever the upstream answers; no call issues more than one, and
\* the requests issued never outnumber the calls served.
C3_ExactlyOneRequest ==
    /\ Len(last.reqs) <= 1
    /\ httpCount <= served
    /\ (Called /\ last.ready /\ last.name \in ToolNames /\ RequiredPresent)
          => Len(last.reqs) = 1

\* C3 witness: a request that the upstream answers with 404 was sent once.
C3_Witness ==
    /\ Called /\ last.ready /\ last.name = "get_device_info" /\ RequiredPresent
    /\ last.outcome = BadStatus(404)
    /\ Len(last.reqs) = 1 /\ IsErrorText

\* the tools with a required argument
HasRequired == last.name \in {"get_device_info", "acknowledge_alarm", "accept_alarm",
                              "assign_alarm", "get_metric_by_id"}
RequiredMissing == ~RequiredPresent
RequiredEmpty ==
    /\ last.arguments.mapping
    /\ \E k \in RequiredKeys(last.name) :
          k \in DOMAIN last.arguments.d /\ last.arguments.d[k] = PyStr("")

\* C4 (as claimed): for the five tools with a required argument, a call whose
\* required argument is missing or is the empty string returns an error
\* response and sends no HTTP request.
C4_Claimed ==
    (Called /\ last.ready /\ HasRequired /\ (RequiredMissing \/ RequiredEmpty))
      => IsErrorText /\ last.reqs = <<>>

\* C5 (as claimed): a call with a name that is no tool returns exactly one
\* error response whose text contains that name, and sends no HTTP request.
C5_Claimed ==
    (Called /\ last.name \notin ToolNames)
      => IsErrorText /\ TextContains(last.name) /\ last.reqs = <<>>

\* C5 (amended): a call with a name that is no tool returns exactly one error
\* response and sends no HTTP request; with the client initialized the text
\* contains that name, and with the client uninitialized it is the
\* not-initialized message.
C5_UnknownTool ==
    (Called /\ last.name \notin ToolNames)
      => /\ IsErrorText /\ last.reqs = <<>>
         /\ last.ready => TextContains(last.name)
         /\ ~last.ready => last.response = Uninitialized.response

\* C5 witness: the initialized client is asked for "nonexistent_tool".
C5_Witness ==
    /\ Called /\ last.ready /\ last.name = "nonexistent_tool"
    /\ Text = <<"Error: ", "Unknown tool '", "nonexistent_tool", "'">>

\* a summary line "Found <count>" in the text
HasCount(c) ==
    \E i \in 1..(Len(Text) - 1) : Text[i] = "Found " /\ Text[i + 1] = ToString(c)
ListAnswer == last.outcome.kind = "ok" /\ last.outcome.body.t = "list"

\* C6 (as claimed): for each of the six list-shaped tools, an upstream list
\* of n elements is rendered with a summary line whose count is n.
C6_Claimed ==
    (Called /\ last.ready /\ ListAnswer
       /\ last.name \in {"list_devices", "list_alarms", "list_metrics",
                         "get_metric_definitions", "list_probes", "list_robots"})
      => OneText /\ HasCount(last.outcome.body.n)

\* C6 (amended): for list_devices, list_alarms, list_metrics, list_probes and
\* list_robots an upstream list of n elements (n = 0 included) is rendered
\* with a summary line "Found n ..."; get_metric_definitions renders the
\* list under the title "Metric Definitions:" with no count.
C6_SummaryCount ==
    (Called /\ last.ready /\ ListAnswer)
      => /\ last.name \in {"list_devices", "list_alarms", "list_metrics",
                           "list_probes", "list_robots"}
              => OneText /\ HasCount(last.outcome.body.n)
         /\ last.name = "get_metric_definitions"
              => OneText /\ Text[1] = "Metric Definitions:\n\n" /\ ~TextContains("Found ")

\* C6 witness: list_robots renders an empty list with the count 0.
C6_Witness ==
    /\ Called /\ last.ready /\ last.name = "list_robots"
    /\ last.outcome = OkBody(JList(0))
    /\ Text = <<"Found ", "0", " robots:\n\n", "[]">>

\* the query parameters of the request of the latest call
Params == last.reqs[1].params.d
SentAs(k) == k \in DOMAIN Params /\ Supplied(k) /\ Params[k] = last.arguments.d[k]

\* C7: the request of list_alarms carries severity=v exactly when the call
\* supplies severity=v (0 included) and no severity otherwise; a domain, hub
\* or source parameter is sent only when the call supplies it, with its value.
C7_FiltersSentWhenSupplied ==
    (Called /\ last.ready /\ last.arguments.mapping /\ Len(last.reqs) = 1)
      => /\ last.name = "list_alarms"
              => /\ last.reqs[1].params.given
                 /\ Supplied("severity") <=> "severity" \in DOMAIN Params
                 /\ Supplied("severity") => SentAs("severity")
                 /\ "source" \in DOMAIN Params => SentAs("source")
                 /\ DOMAIN Params \subseteq {"limit", "severity", "source"}
         /\ last.name = "list_devices"
              => /\ last.reqs[1].params.given
                 /\ \A k \in DOMAIN Params : k \in {"domain", "hub"} /\ SentAs(k)

\* C7 witness: severity=0 is supplied and sent.
C7_Witness ==
    /\ Called /\ last.ready /\ last.name = "list_alarms" /\ Len(last.reqs) = 1
    /\ Supplied("severity") /\ last.arguments.d["severity"] = PyInt(0)
    /\ Params["severity"] = PyInt(0)

\* the JSON body of the request of the latest call
Body == last.reqs[1].json
AckSent == /\ Called /\ last.ready /\ last.name = "acknowledge_alarm"
           /\ Len(last.reqs) = 1

\* C8 (as claimed): the body of acknowledge_alarm is {} when message is
\* absent and {"message": m} for every supplied message m.
C8_Claimed ==
    AckSent => /\ Body.given
               /\ ~Supplied("message") => Body.d = EmptyDict
               /\ Supplied("message")
                    => /\ DOMAIN Body.d = {"message"}
                       /\ Body.d["message"] = last.arguments.d["message"]

\* C8 (amended): the body of acknowledge_alarm is {} when message is absent
\* or is the empty string, and {"message": m} for every supplied non-empty
\* message m.
C8_AckBody ==
    AckSent => /\ Body.given
               /\ ~Supplied("message") => Body.d = EmptyDict
               /\ Supplied("message") /\ last.arguments.d["message"] = PyStr("")
                    => Body.d = EmptyDict
               /\ Supplied("message") /\ last.arguments.d["message"] # PyStr("")
                    => /\ DOMAIN Body.d = {"message"}
                       /\ Body.d["message"] = last.arguments.d["message"]

\* C8 witness: an acknowledgement with the message "seen".
C8_Witness ==
    /\ AckSent /\ Supplied("message")
    /\ last.arguments.d["message"] = PyStr("seen")
    /\ Body.d["message"] = PyStr("seen")

\* the three required variables are all present in the environment
AllPresent == env.UIM_BASE_URL.set /\ env.UIM_USERNAME.set /\ env.UIM_PASSWORD.set

\* C9: the client is ready only if UIM_BASE_URL, UIM_USERNAME and
\* UIM_PASSWORD were all present; if one is absent main aborts with the
\* client uninitialized and the server never serves a call; once the client
\* is ready no step changes it.
C9_ReadyOnlyWhenConfigured ==
    /\ [](uim_client.ready => AllPresent)
    /\ [](pc = "serving" => uim_client.ready)
    /\ [](~AllPresent => pc # "serving" /\ served = 0)
    /\ [](pc = "aborted" => ~uim_client.ready /\ served = 0)
    /\ [][pc = "loaded" /\ pc' \in {"serving", "aborted"} /\ ~AllPresent
            => pc' = "aborted"]_vars
    /\ [][uim_client.ready => uim_client' = uim_client]_vars

\* C9 witness: main aborted because UIM_PASSWORD alone is absent.
C9_Witness ==
    /\ pc = "aborted" /\ ~uim_client.ready
    /\ env.UIM_BASE_URL.set /\ env.UIM_USERNAME.set /\ ~env.UIM_PASSWORD.set

\* C10 (as claimed): every request of list_alarms carries a limit parameter:
\* the limit supplied, whatever integer it is (0 included), and 100 when no
\* limit is supplied.
C10_Claimed ==
    (Called /\ last.ready /\ last.name = "list_alarms" /\ Len(last.reqs) = 1)
      => /\ "limit" \in DOMAIN Params
         /\ Params["limit"] = IF Supplied("limit") THEN last.arguments.d["limit"]
                                                   ELSE PyInt(DefaultLimit)
====
